---- MODULE Spec2Model ----
(***************************************************************************)
(* A model of pydis' execution engine (src/src/core/executor.py) and of    *)
(* the thread that drives it (the Tk main thread of src/src/gui/app.py).   *)
(*                                                                         *)
(* Every call of Executor.reset() creates fresh objects (two StringIO      *)
(* buffers, two threading.Event objects, a trace list, a locals dict).     *)
(* The objects created by the n-th reset are "generation n"; the fields of *)
(* the Executor (self.stdout_capture, self._step_event, ...) point to the  *)
(* objects of generation `gen`.  A thread that evaluates self.<field>      *)
(* gets the object of the generation current at that moment; a thread      *)
(* blocked inside Event.wait() stays on the object it called wait() on.    *)
(***************************************************************************)
EXTENDS Integers, Sequences, FiniteSets, TLC

\* ------------------------------------------------------------------ bounds
MaxRuns == 2        \* executions (stepping or batch) started on the engine
MaxSteps == 2       \* step() calls that find the engine running, per run
HandlerLines == 2   \* line events raised inside traceback.print_exc, up to the
                    \* one whose frame holds an object that repr() fails on

MaxLoops == 1        \* run-loop threads started with the Run button
MaxInstr == 3        \* instructions of a disassembled source
MaxLine == 4         \* lines of a source

Gens == 0..MaxRuns      \* generation 0: the objects made by __init__'s reset()
Workers == 1..MaxRuns   \* the worker thread of a stepping run has the run's generation
Loops == 1..MaxLoops    \* the threads made by _on_debug_run, in the order they are started

\* --------------------------------------------------------- target programs
\* A statement of a straight-line target program.
\*   assign: var = add            (src = "")      or  var = src + add
\*   print : print(src)
\*   raise : raise an exception
\*   block : a call that never returns (no line event is raised inside it)
\*   slow  : a call that returns after more than the timeout of step() and
\*           of the join, such as time.sleep(2)
\*   hold  : a call into C code that never returns and never gives the
\*           interpreter lock to another thread, such as sum(iter(int, 1))
\*   syntax: text that is no Python; a source holding it does not compile
\*   exit  : raise SystemExit, a BaseException that is no Exception
\*   newlist: var = []
\*   append: var.append(add)
\* A value bound to a name is an int n >= 0 or a list object; the list
\* object made by a program that runs in the dict of generation g is named
\* ListObject(g), a negative number, and its elements are lists[g].
Assign(v, n) == [op |-> "assign", var |-> v, src |-> "", add |-> n]
AssignFrom(v, s, n) == [op |-> "assign", var |-> v, src |-> s, add |-> n]
PrintVar(s) == [op |-> "print", var |-> "", src |-> s, add |-> 0]
Raise == [op |-> "raise", var |-> "", src |-> "", add |-> 0]
Block == [op |-> "block", var |-> "", src |-> "", add |-> 0]
Slow == [op |-> "slow", var |-> "", src |-> "", add |-> 0]
Hold == [op |-> "hold", var |-> "", src |-> "", add |-> 0]
Syntax == [op |-> "syntax", var |-> "", src |-> "", add |-> 0]
Exit == [op |-> "exit", var |-> "", src |-> "", add |-> 0]
NewList(v) == [op |-> "newlist", var |-> v, src |-> "", add |-> 0]
ListAppend(v, n) == [op |-> "append", var |-> "", src |-> v, add |-> n]

ListObject(g) == -1 - g
IsList(v) == v < 0
ListOf(v) == -1 - v

\* a = 1; print(a)
ProgPrint == <<Assign("a", 1), PrintVar("a")>>
\* raise
ProgRaise == <<Raise>>
\* a call that never returns
ProgBlock == <<Block>>
\* a source with a syntax error
ProgBad == <<Syntax>>
\* raise SystemExit
ProgExit == <<Exit>>
\* no statement
ProgEmpty == <<>>
\* x = 5; print(x)
ProgX5 == <<Assign("x", 5), PrintVar("x")>>
\* l = []; l.append(1)
ProgList == <<NewList("l"), ListAppend("l", 1)>>
\* a = 1; b = a + 1; print(b)
ProgABC == <<Assign("a", 1), AssignFrom("b", "a", 1), PrintVar("b")>>

\* time.sleep(2); a = 1
ProgSlow == <<Slow, Assign("a", 1)>>

\* x = 1; sum(iter(int, 1)): a call into C code that never returns and never
\* gives the interpreter lock to another thread
ProgHold == <<Assign("x", 1), Hold>>

\* the sources the user runs
Programs == {ProgPrint, ProgRaise, ProgBlock}

\* the sources run on an engine that is used once
FirstPrograms == Programs \cup {ProgBad, ProgABC, ProgList, ProgExit, ProgX5, ProgEmpty}

\* the sources of a batch execution
BatchPrograms == {ProgX5, ProgRaise, ProgBad, ProgExit, ProgEmpty}

\* compile(source_code, '<string>', 'exec') returns a code object; otherwise
\* it raises SyntaxError, an Exception.
Compiles(p) == \A i \in 1..Len(p) : p[i].op # "syntax"

StraightLine(p) == \A i \in 1..Len(p) : p[i].op \in {"assign", "print"}

EmptyDict == [k \in {} |-> 0]

\* the process-wide streams: the real one or a capture buffer of a generation
RealStream == [kind |-> "real", gen |-> 0]
Capture(g) == [kind |-> "capture", gen |-> g]

VARIABLES
    \* Executor fields
    gen,                    \* generation of the objects the fields point to
    is_running,             \* self._is_running
    should_stop,            \* self._should_stop
    execution_thread,       \* self._execution_thread: 0 (None) or a worker
    original_stdout,        \* self._original_stdout
    original_stderr,        \* self._original_stderr
    \* objects, by generation
    locals,                 \* the dict of each generation
    lists,                  \* the elements of the list object ListObject(g)
    stdout_capture,         \* text written to each StringIO, as a sequence
    stderr_capture,
    execution_trace,        \* the trace list of each generation
    step_event,             \* flag of each threading.Event
    step_complete_event,
    \* process-wide
    sys_stdout,
    sys_stderr,
    \* worker threads
    wpc,                    \* position of each worker in _run_with_trace
    wprog,                  \* its source
    wline,                  \* the statement its frame is at (1-based)
    wtraced,                \* the 'call' event installed the local trace function
    wlocals,                \* generation of the dict its frame uses as f_locals
    wwait,                  \* generation of the Event it called wait() on
    wxline,                 \* line event of traceback.print_exc it is at (0: not in it)
    wfile,                  \* generation of the StringIO print_exc was given as file
    \* the controlling (Tk main) thread
    upc,                    \* position of the controlling thread
    uwait,                  \* generation of the Event step() called wait() on
    uprog,                  \* source of the batch execution in progress
    uline,                  \* statement the batch execution is at
    uerror,                 \* `exception` of execute_code
    batch_result,           \* the tuple execute_code returned last
    snapshot,               \* the dict get_current_state returned last
    info_used,              \* get_variable_info: size of the dict when its iterator was made
    info_pos,               \* get_variable_info: items the iterator has yielded
    info_error,             \* get_variable_info raised
    \* history
    trace_owner,            \* per generation: the worker that appended each record
    steps_issued,           \* step() calls of the current run that set the proceed signal
                            \* (calls made by the application's callbacks are not counted)
    uparked,                \* the step() call that is waiting was made while the worker
                            \* of the run was blocked on the proceed signal
    snapshot_at,            \* when `snapshot` was returned: the run, the steps issued,
                            \* the stop flag, and the display of its locals as it was then
    uncaught,               \* threads (0: the controlling one) in which an exception
                            \* propagates that no except clause of the engine catches
    \* the application (src/src/gui/app.py, src/src/gui/debugger.py)
    mode,                   \* "normal": the step controls are hidden; "debug": shown
    step_button,            \* the Step button is enabled
    run_button,             \* the Run button is enabled
    stop_button,            \* the Stop button is enabled
    handler,                \* the callback the Tk main thread is inside ("none": in the event loop)
    final,                  \* what _on_debug_stop republished last
    rpc,                    \* position of each run-loop thread in run_execution
    rwait,                  \* generation of the Event its step() called wait() on
    rstopped,               \* history: _on_debug_stop was invoked since the thread was started
    rrun,                   \* history: the run that was current when the thread was started
    \* the bytecode view (src/src/gui/bytecode_view.py)
    instructions,           \* bytecode_view.instructions
    highlighted,            \* offset of the instruction the view highlights, or None
    line_number             \* the line the instructions were searched for last (0: none yet)

engine == <<gen, is_running, should_stop, execution_thread, original_stdout, original_stderr>>
objects == <<locals, lists, stdout_capture, stderr_capture, execution_trace, step_event, step_complete_event>>
process == <<sys_stdout, sys_stderr>>
worker == <<wpc, wprog, wline, wtraced, wlocals, wwait, wxline, wfile>>
controller == <<upc, uwait, uprog, uline, uerror, batch_result>>
observer == <<snapshot, snapshot_at, info_used, info_pos, info_error>>
history == <<trace_owner, steps_issued, uparked, uncaught>>
view == <<instructions, highlighted, line_number>>
app == <<mode, step_button, run_button, stop_button, handler, final, rpc, rwait, rstopped, rrun,
         view>>
vars == <<engine, objects, process, worker, controller, observer, history, app>>

\* repr() of a value: the display string of an int, or of a list as it is now
Repr(v) == IF IsList(v) THEN ToString(lists[ListOf(v)]) ELSE ToString(v)

\* {k: repr(v) for k, v in d.items()}
ReprDict(d) == [k \in DOMAIN d |-> Repr(d[k])]

NoSnapshot == [is_running |-> FALSE, stdout |-> <<>>, stderr |-> <<>>, locals |-> EmptyDict,
               globals |-> EmptyDict, execution_trace |-> <<>>]

\* nothing republished by _on_debug_stop yet
NoFinal == [taken |-> FALSE, run |-> 0, state |-> NoSnapshot]

NoResult == [locals |-> EmptyDict, stdout |-> <<>>, stderr |-> <<>>, error |-> FALSE]

\* The state after Executor.__init__: reset() has run once.
\* The engine and the controls after construction.
InitState ==
    /\ gen = 0
    /\ is_running = FALSE
    /\ should_stop = FALSE
    /\ execution_thread = 0
    /\ original_stdout = RealStream
    /\ original_stderr = RealStream
    /\ locals = [g \in Gens |-> EmptyDict]
    /\ lists = [g \in Gens |-> <<>>]
    /\ stdout_capture = [g \in Gens |-> <<>>]
    /\ stderr_capture = [g \in Gens |-> <<>>]
    /\ execution_trace = [g \in Gens |-> <<>>]
    /\ step_event = [g \in Gens |-> FALSE]
    /\ step_complete_event = [g \in Gens |-> FALSE]
    /\ sys_stdout = RealStream
    /\ sys_stderr = RealStream
    /\ wpc = [w \in Workers |-> "none"]
    /\ wprog = [w \in Workers |-> <<>>]
    /\ wline = [w \in Workers |-> 0]
    /\ wtraced = [w \in Workers |-> FALSE]
    /\ wlocals = [w \in Workers |-> 0]
    /\ wwait = [w \in Workers |-> 0]
    /\ wxline = [w \in Workers |-> 0]
    /\ wfile = [w \in Workers |-> 0]
    /\ upc = "idle"
    /\ uwait = 0
    /\ uprog = <<>>
    /\ uline = 0
    /\ uerror = FALSE
    /\ batch_result = NoResult
    /\ snapshot = NoSnapshot
    /\ snapshot_at = [taken |-> FALSE, run |-> 0, steps |-> 0, stopped |-> FALSE,
                      seen |-> EmptyDict]
    /\ info_used = 0
    /\ info_pos = 0
    /\ info_error = FALSE
    /\ trace_owner = [g \in Gens |-> <<>>]
    /\ steps_issued = 0
    /\ uparked = FALSE
    /\ uncaught = {}
    /\ mode = "normal"
    /\ step_button = TRUE
    /\ run_button = TRUE
    /\ stop_button = FALSE
    /\ handler = "none"
    /\ final = NoFinal
    /\ rpc = [l \in Loops |-> "none"]
    /\ rwait = [l \in Loops |-> 0]
    /\ rstopped = [l \in Loops |-> FALSE]
    /\ rrun = [l \in Loops |-> 0]

\* None of Python, where a line or an offset is expected.
None == -1

Init ==
    /\ InitState
    /\ instructions = <<>>
    /\ highlighted = None
    /\ line_number = 0

\* ------------------------------------------------------- statement effects
\* The statement raises: an explicit raise, or a NameError on an unbound name.
StmtRaises(s, d) ==
    \/ s.op = "raise"
    \/ s.op \in {"assign", "print", "append"} /\ s.src # "" /\ s.src \notin DOMAIN d

\* The statement raises an exception that `except Exception` does not catch.
StmtExits(s) == s.op = "exit"

\* The dict a statement leaves behind when run with d as its locals.
StmtLocals(s, d) ==
    IF s.op = "assign" /\ ~StmtRaises(s, d)
    THEN (s.var :> (IF s.src = "" THEN s.add ELSE d[s.src] + s.add)) @@ d
    ELSE d

\* The dict a statement leaves behind when it runs in the dict of generation
\* lg: `var = []` binds the name to a new list object.
StmtBinds(s, lg) ==
    IF s.op = "newlist"
    THEN (s.var :> ListObject(lg)) @@ locals[lg]
    ELSE StmtLocals(s, locals[lg])

\* The list objects after the statement: `var = []` makes an empty one,
\* `var.append(n)` adds n to the one the name is bound to.
StmtLists(s, lg) ==
    IF s.op = "newlist" THEN [lists EXCEPT ![lg] = <<>>]
    ELSE IF s.op = "append" /\ ~StmtRaises(s, locals[lg]) /\ IsList(locals[lg][s.src])
         THEN [lists EXCEPT ![ListOf(locals[lg][s.src])] = Append(@, s.add)]
         ELSE lists

\* The text a statement writes to sys.stdout.
StmtOutput(s, d) ==
    IF s.op = "print" /\ ~StmtRaises(s, d) THEN <<Repr(d[s.src])>> ELSE <<>>

\* One statement of a program, run in the dict of generation lg: its effect
\* on the dicts and on whatever sys.stdout is at that moment.
ExecStatement(s, lg) ==
    /\ s.op \notin {"block", "hold"}
    /\ locals' = [locals EXCEPT ![lg] = StmtBinds(s, lg)]
    /\ lists' = StmtLists(s, lg)
    /\ stdout_capture' =
         IF sys_stdout.kind = "capture"
         THEN [stdout_capture EXCEPT ![sys_stdout.gen] = @ \o StmtOutput(s, locals[lg])]
         ELSE stdout_capture

\* ------------------------------------------------------------------- reset
\* Executor.reset(): every field is rebound to a fresh object, the flags are
\* cleared and the thread forgotten (running and thread as the caller leaves
\* them: execute_step_by_step overwrites both right after the reset); the
\* streams found in sys.stdout / sys.stderr are recorded as the originals.
Reset(running, thread) ==
    /\ gen' = gen + 1
    /\ is_running' = running
    /\ should_stop' = FALSE
    /\ execution_thread' = thread
    /\ original_stdout' = sys_stdout
    /\ original_stderr' = sys_stderr

\* history kept per run starts afresh with the run
ResetHistory ==
    /\ steps_issued' = 0
    /\ uparked' = FALSE

\* ------------------------------------------------------------ worker thread
\* _run_with_trace, lines 133-135: redirect stdout and stderr.
WRedirect(w) ==
    /\ wpc[w] = "start"
    /\ sys_stdout' = Capture(gen)
    /\ sys_stderr' = Capture(gen)
    /\ wpc' = [wpc EXCEPT ![w] = "exec"]
    /\ UNCHANGED <<engine, objects, wprog, wxline, wfile, wline, wtraced, wlocals, wwait, controller, observer, app, history>>

\* _run_with_trace, lines 139-143: settrace, compile, exec.  A source that
\* does not compile raises at line 142 and unwinds to the except clause.
\* exec binds the dict self.locals names now; the 'call' event of the module
\* frame runs _trace_function, which installs the local trace function unless
\* _should_stop is set (lines 81-82, 105).
WExec(w) ==
    /\ wpc[w] = "exec"
    /\ IF Compiles(wprog[w])
       THEN /\ wlocals' = [wlocals EXCEPT ![w] = gen]
            /\ wtraced' = [wtraced EXCEPT ![w] = ~should_stop]
            /\ wline' = [wline EXCEPT ![w] = 1]
            /\ wpc' = [wpc EXCEPT ![w] = IF Len(wprog[w]) = 0 THEN "restore" ELSE "line"]
       ELSE /\ wpc' = [wpc EXCEPT ![w] = "except"]
            /\ UNCHANGED <<wlocals, wtraced, wline>>
    /\ UNCHANGED <<engine, objects, process, wprog, wxline, wfile, wwait, controller, observer, app, history>>

\* The frame the line event belongs to has the local trace function: the
\* module frame got it, or not, at its 'call' event (WExec); every line
\* event of print_exc modelled here is the first of a frame just called,
\* whose 'call' event precedes it.
Traced(w) == IF wxline[w] = 0 THEN wtraced[w] ELSE ~should_stop

\* _trace_function, line 94: repr(v) of a local of the frame raises.  The
\* frame of traceback.FrameSummary.__init__ holds `self` before its
\* attributes are set, and FrameSummary.__repr__ reads them.
ReprRaises(w) == wxline[w] = HandlerLines

\* _trace_function, lines 81-97: a 'line' event; return at once when
\* _should_stop is set (a frame without local trace function gets no
\* event).  An exception raised while the record is built leaves the trace
\* function and the except clause and unwinds to the finally clause.
WHook(w) ==
    /\ wpc[w] = "line"
    /\ IF Traced(w) /\ ~should_stop
       THEN IF ReprRaises(w)
            THEN /\ wpc' = [wpc EXCEPT ![w] = "restore"]
                 /\ uncaught' = uncaught \cup {w}
            ELSE /\ wpc' = [wpc EXCEPT ![w] = "append"]
                 /\ UNCHANGED uncaught
       ELSE /\ wpc' = [wpc EXCEPT ![w] = "stmt"]
            /\ UNCHANGED uncaught
    /\ UNCHANGED <<engine, objects, process, wprog, wxline, wfile, wline, wtraced, wlocals, wwait,
                   controller, observer, app, trace_owner, steps_issued, uparked>>

\* repr() of the locals of the frame of traceback.print_exc
HandlerLocals == [k \in {"limit", "file", "chain"} |->
                    IF k = "limit" THEN "None" ELSE IF k = "chain" THEN "True" ELSE "<StringIO>"]

\* The StepRecord of lines 89-97.  In the module frame of the source the
\* globals hold nothing but __builtins__, which the comprehension of lines
\* 95-96 drops; a frame of traceback.py has that module's globals.
StepRecord(w) ==
    IF wxline[w] = 0
    THEN [event |-> "line", lineno |-> wline[w], function |-> "<module>",
          locals |-> ReprDict(locals[wlocals[w]]), globals |-> EmptyDict]
    ELSE [event |-> "line", lineno |-> wxline[w], function |-> "print_exc",
          locals |-> HandlerLocals, globals |-> [k \in {"sys"} |-> "<module 'sys'>"]]

\* _trace_function, lines 86-97: append the StepRecord to self.execution_trace.
WAppend(w) ==
    /\ wpc[w] = "append"
    /\ execution_trace' = [execution_trace EXCEPT ![gen] = Append(@, StepRecord(w))]
    /\ trace_owner' = [trace_owner EXCEPT ![gen] = Append(@, w)]
    /\ wpc' = [wpc EXCEPT ![w] = "clear"]
    /\ UNCHANGED <<engine, locals, lists, stdout_capture, stderr_capture, step_event,
                   step_complete_event, process, wprog, wxline, wfile, wline, wtraced, wlocals, wwait,
                   controller, observer, app, steps_issued, uparked, uncaught>>

\* _trace_function, line 100: self._step_event.clear()
WClear(w) ==
    /\ wpc[w] = "clear"
    /\ step_event' = [step_event EXCEPT ![gen] = FALSE]
    /\ wpc' = [wpc EXCEPT ![w] = "signal"]
    /\ UNCHANGED <<engine, locals, lists, stdout_capture, stderr_capture, execution_trace,
                   step_complete_event, process, wprog, wxline, wfile, wline, wtraced, wlocals, wwait,
                   controller, observer, app, history>>

\* The hook without line 101: the worker goes on to its wait with the
\* suspended signal as it was.
WSignalSkipped(w) ==
    /\ wpc[w] = "signal"
    /\ wpc' = [wpc EXCEPT ![w] = "wait"]
    /\ UNCHANGED <<engine, objects, process, wprog, wxline, wfile, wline, wtraced, wlocals, wwait,
                   controller, observer, app, history>>

\* _trace_function, line 101: self._step_complete_event.set()
WSignal(w) ==
    /\ wpc[w] = "signal"
    /\ step_complete_event' = [step_complete_event EXCEPT ![gen] = TRUE]
    /\ wpc' = [wpc EXCEPT ![w] = "wait"]
    /\ UNCHANGED <<engine, locals, lists, stdout_capture, stderr_capture, execution_trace,
                   step_event, process, wprog, wxline, wfile, wline, wtraced, wlocals, wwait,
                   controller, observer, app, history>>

\* _trace_function, line 102: self._step_event.wait() is entered on the
\* Event the field names now.
WWait(w) ==
    /\ wpc[w] = "wait"
    /\ wwait' = [wwait EXCEPT ![w] = gen]
    /\ wpc' = [wpc EXCEPT ![w] = "parked"]
    /\ UNCHANGED <<engine, objects, process, wprog, wxline, wfile, wline, wtraced, wlocals,
                   controller, observer, app, history>>

\* _trace_function, line 102: wait() returns once that Event is set.  A
\* waiter leaves wait() in a state where the flag is set: a return caused by
\* a set() whose flag has been cleared again since is the same behaviour with
\* this step taken at the time of the set(), as the step changes only w's
\* own position.
WWake(w) ==
    /\ wpc[w] = "parked"
    /\ step_event[wwait[w]]
    /\ wpc' = [wpc EXCEPT ![w] = "unsignal"]
    /\ UNCHANGED <<engine, objects, process, wprog, wxline, wfile, wline, wtraced, wlocals, wwait,
                   controller, observer, app, history>>

\* _trace_function, lines 103-105: self._step_complete_event.clear(), return.
WUnsignal(w) ==
    /\ wpc[w] = "unsignal"
    /\ step_complete_event' = [step_complete_event EXCEPT ![gen] = FALSE]
    /\ wpc' = [wpc EXCEPT ![w] = "stmt"]
    /\ UNCHANGED <<engine, locals, lists, stdout_capture, stderr_capture, execution_trace,
                   step_event, process, wprog, wxline, wfile, wline, wtraced, wlocals, wwait,
                   controller, observer, app, history>>

\* exec, line 143: the statement the frame is at runs; a statement that
\* raises an Exception unwinds to the except clause, one that raises another
\* BaseException passes it and unwinds to the finally clause, the last
\* statement falls off the end.
WStatement(w) ==
    /\ wpc[w] = "stmt"
    /\ wxline[w] = 0
    /\ ExecStatement(wprog[w][wline[w]], wlocals[w])
    /\ IF StmtExits(wprog[w][wline[w]])
       THEN wpc' = [wpc EXCEPT ![w] = "restore"] /\ UNCHANGED wline
       ELSE IF StmtRaises(wprog[w][wline[w]], locals[wlocals[w]])
       THEN wpc' = [wpc EXCEPT ![w] = "except"] /\ UNCHANGED wline
       ELSE IF wline[w] < Len(wprog[w])
            THEN wpc' = [wpc EXCEPT ![w] = "line"] /\ wline' = [wline EXCEPT ![w] = @ + 1]
            ELSE wpc' = [wpc EXCEPT ![w] = "restore"] /\ UNCHANGED wline
    /\ uncaught' = IF StmtExits(wprog[w][wline[w]]) THEN uncaught \cup {w} ELSE uncaught
    /\ UNCHANGED <<engine, stderr_capture, execution_trace, step_event,
                   step_complete_event, process, wprog, wxline, wfile, wtraced, wlocals, wwait,
                   controller, observer, app, trace_owner, steps_issued, uparked>>

\* _run_with_trace, lines 145-146: traceback.print_exc(file=self.stderr_capture)
\* is called with the StringIO the field names now.  The call runs Python
\* code of traceback.py while the trace function of line 139 is still
\* installed, so its lines raise line events too.
WExcept(w) ==
    /\ wpc[w] = "except"
    /\ wfile' = [wfile EXCEPT ![w] = gen]
    /\ wxline' = [wxline EXCEPT ![w] = 1]
    /\ wpc' = [wpc EXCEPT ![w] = "line"]
    /\ UNCHANGED <<engine, objects, process, wprog, wline, wtraced, wlocals, wwait,
                   controller, observer, app, history>>

\* traceback.print_exc: the line the worker is at runs; the last one has
\* written the formatted traceback to the file it was given.
WPrintExc(w) ==
    /\ wpc[w] = "stmt"
    /\ wxline[w] > 0
    /\ IF wxline[w] < HandlerLines
       THEN /\ wxline' = [wxline EXCEPT ![w] = @ + 1]
            /\ wpc' = [wpc EXCEPT ![w] = "line"]
            /\ UNCHANGED stderr_capture
       ELSE /\ stderr_capture' = [stderr_capture EXCEPT ![wfile[w]] = Append(@, "Traceback")]
            /\ wpc' = [wpc EXCEPT ![w] = "restore"]
            /\ UNCHANGED wxline
    /\ UNCHANGED <<engine, locals, lists, stdout_capture, execution_trace, step_event,
                   step_complete_event, process, wprog, wfile, wline, wtraced, wlocals, wwait,
                   controller, observer, app, history>>

\* _run_with_trace, lines 150-152: settrace(None); restore stdout and stderr.
WRestore(w) ==
    /\ wpc[w] = "restore"
    /\ sys_stdout' = original_stdout
    /\ sys_stderr' = original_stderr
    /\ wpc' = [wpc EXCEPT ![w] = "idle"]
    /\ UNCHANGED <<engine, objects, wprog, wxline, wfile, wline, wtraced, wlocals, wwait, controller, observer, app, history>>

\* _run_with_trace, line 153: self._is_running = False
WIdle(w) ==
    /\ wpc[w] = "idle"
    /\ is_running' = FALSE
    /\ wpc' = [wpc EXCEPT ![w] = "notify"]
    /\ UNCHANGED <<gen, should_stop, execution_thread, original_stdout, original_stderr,
                   objects, process, wprog, wxline, wfile, wline, wtraced, wlocals, wwait, controller, observer, app, history>>

\* _run_with_trace, line 154: self._step_complete_event.set(); the thread ends.
WNotify(w) ==
    /\ wpc[w] = "notify"
    /\ step_complete_event' = [step_complete_event EXCEPT ![gen] = TRUE]
    /\ wpc' = [wpc EXCEPT ![w] = "done"]
    /\ UNCHANGED <<engine, locals, lists, stdout_capture, stderr_capture, execution_trace,
                   step_event, process, wprog, wxline, wfile, wline, wtraced, wlocals, wwait,
                   controller, observer, app, history>>

WorkerStep(w) ==
    \/ WRedirect(w) \/ WExec(w) \/ WHook(w) \/ WAppend(w) \/ WClear(w) \/ WSignal(w)
    \/ WWait(w) \/ WWake(w) \/ WUnsignal(w) \/ WStatement(w) \/ WExcept(w)
    \/ WPrintExc(w) \/ WRestore(w) \/ WIdle(w) \/ WNotify(w)

\* -------------------------------------------------------- controlling thread
\* execute_step_by_step, lines 114-124 (PyDisApp._on_debug calls it without
\* stopping an execution in progress): reset, set the flags, start the worker.
StartStepping(p) ==
    /\ upc = "idle"
    /\ gen < MaxRuns
    /\ Reset(TRUE, gen + 1)
    /\ wpc' = [wpc EXCEPT ![gen + 1] = "start"]
    /\ wprog' = [wprog EXCEPT ![gen + 1] = p]
    /\ ResetHistory
    /\ UNCHANGED <<objects, process, wline, wtraced, wlocals, wwait, wxline, wfile,
                   controller, observer, app, trace_owner, uncaught>>

\* step, lines 158-160: when running, set the proceed signal and enter the
\* wait for the suspended signal; otherwise return.
StepCallUpTo(n) ==
    /\ upc = "idle"
    /\ is_running
    /\ steps_issued < n
    /\ step_event' = [step_event EXCEPT ![gen] = TRUE]
    /\ upc' = "step_wait"
    /\ uwait' = gen
    /\ steps_issued' = steps_issued + 1
    /\ uparked' = (wpc[gen] = "parked" /\ ~step_event[wwait[gen]])
    /\ UNCHANGED <<engine, locals, lists, stdout_capture, stderr_capture, execution_trace,
                   step_complete_event, process, worker, uprog, uline, uerror,
                   batch_result, observer, app, trace_owner, uncaught>>

StepCall == StepCallUpTo(MaxSteps)

\* step without the test of line 158: the proceed signal is set and the
\* wait entered although the engine is not running.
StepUnguarded ==
    /\ upc = "idle"
    /\ ~is_running
    /\ step_event' = [step_event EXCEPT ![gen] = TRUE]
    /\ upc' = "step_wait"
    /\ uwait' = gen
    /\ UNCHANGED <<engine, locals, lists, stdout_capture, stderr_capture, execution_trace,
                   step_complete_event, process, worker, uprog, uline, uerror,
                   batch_result, observer, app, history>>

\* step, line 158: not running, nothing is done.
StepNoop ==
    /\ upc = "idle"
    /\ ~is_running
    /\ UNCHANGED vars

\* step, line 160: wait(timeout=1.0) returns because the Event is set.
\* A worker is inside a call that keeps the interpreter lock: no other
\* thread of the process executes, and a wait of another thread, its timeout
\* over or not, does not return before it has the lock again.
InterpreterHeld ==
    \E w \in Workers :
        /\ wpc[w] = "stmt"
        /\ wxline[w] = 0
        /\ wprog[w][wline[w]].op = "hold"

StepReturn ==
    /\ upc = "step_wait"
    /\ step_complete_event[uwait]
    /\ ~InterpreterHeld
    /\ upc' = "idle"
    /\ uparked' = FALSE
    /\ UNCHANGED <<engine, objects, process, worker, uwait, uprog, uline, uerror,
                   batch_result, observer, app,
                   trace_owner, steps_issued, uncaught>>

\* step, line 160: wait(timeout=1.0) returns because the timeout elapsed
\* with the Event still clear.
StepTimeout ==
    /\ upc = "step_wait"
    /\ ~step_complete_event[uwait]
    /\ ~InterpreterHeld
    /\ upc' = "idle"
    /\ uparked' = FALSE
    /\ UNCHANGED <<engine, objects, process, worker, uwait, uprog, uline, uerror,
                   batch_result, observer, app,
                   trace_owner, steps_issued, uncaught>>

\* stop_execution, lines 164-166: set the stop flag; when running, set the
\* proceed signal and go on to the join, otherwise return.
StopCall ==
    /\ upc = "idle"
    /\ should_stop' = TRUE
    /\ IF is_running
       THEN /\ step_event' = [step_event EXCEPT ![gen] = TRUE]
            /\ upc' = "stop_join"
       ELSE UNCHANGED <<step_event, upc>>
    /\ UNCHANGED <<gen, is_running, execution_thread, original_stdout, original_stderr,
                   locals, lists, stdout_capture, stderr_capture, execution_trace,
                   step_complete_event, process, worker, uwait, uprog, uline, uerror,
                   batch_result, observer, app, history>>

\* stop_execution without its last line: the flag is left to the worker.
StopLeavesFlag ==
    UNCHANGED is_running

\* stop_execution, line 169: self._is_running = False
StopForceIdle ==
    is_running' = FALSE

\* stop_execution, lines 167-169: the thread is dead or the join returns
\* because it ended; the engine is forced to not-running.
StopJoined ==
    /\ upc = "stop_join"
    /\ ~InterpreterHeld
    /\ execution_thread # 0 => wpc[execution_thread] = "done"
    /\ StopForceIdle
    /\ upc' = "idle"
    /\ UNCHANGED <<gen, should_stop, execution_thread, original_stdout, original_stderr,
                   objects, process, worker, uwait, uprog, uline, uerror, batch_result, observer, app,
                   history>>

\* stop_execution, lines 167-169: join(timeout=1.0) returns with the thread
\* still alive; the engine is forced to not-running.
StopJoinTimeout ==
    /\ upc = "stop_join"
    /\ ~InterpreterHeld
    /\ execution_thread # 0
    /\ wpc[execution_thread] # "done"
    /\ StopForceIdle
    /\ upc' = "idle"
    /\ UNCHANGED <<gen, should_stop, execution_thread, original_stdout, original_stderr,
                   objects, process, worker, uwait, uprog, uline, uerror, batch_result, observer, app,
                   history>>

\* execute_code, lines 52-61 (PyDisApp._on_execute): reset, redirect stdout
\* and stderr, compile; a source that does not compile raises at line 61.
BatchBegin(p) ==
    /\ upc = "idle"
    /\ gen < MaxRuns
    /\ Reset(FALSE, 0)
    /\ sys_stdout' = Capture(gen + 1)
    /\ sys_stderr' = Capture(gen + 1)
    /\ uprog' = p
    /\ uline' = 1
    /\ uerror' = FALSE
    /\ upc' = IF ~Compiles(p) THEN "batch_except"
              ELSE IF Len(p) = 0 THEN "batch_finally" ELSE "batch_stmt"
    /\ ResetHistory
    /\ uncaught' = uncaught \ {0}
    /\ UNCHANGED <<objects, worker, uwait, batch_result, observer, app, trace_owner>>

\* execute_code, line 62: one statement of the source runs on the calling
\* thread; an Exception unwinds to the except clause, another BaseException
\* to the finally clause.
BatchStatement ==
    /\ upc = "batch_stmt"
    /\ ExecStatement(uprog[uline], gen)
    /\ uncaught' = IF StmtExits(uprog[uline]) THEN uncaught \cup {0} ELSE uncaught
    /\ IF StmtExits(uprog[uline])
       THEN upc' = "batch_finally" /\ UNCHANGED uline
       ELSE IF StmtRaises(uprog[uline], locals[gen])
       THEN upc' = "batch_except" /\ UNCHANGED uline
       ELSE IF uline < Len(uprog)
            THEN upc' = "batch_stmt" /\ uline' = uline + 1
            ELSE upc' = "batch_finally" /\ UNCHANGED uline
    /\ UNCHANGED <<engine, stderr_capture, execution_trace, step_event,
                   step_complete_event, process, worker, uwait, uprog, uerror,
                   batch_result, observer, app, trace_owner, steps_issued, uparked>>

\* execute_code, lines 63-65: keep the exception, print the traceback.
BatchExcept ==
    /\ upc = "batch_except"
    /\ uerror' = TRUE
    /\ stderr_capture' = [stderr_capture EXCEPT ![gen] = Append(@, "Traceback")]
    /\ upc' = "batch_finally"
    /\ UNCHANGED <<engine, locals, lists, stdout_capture, execution_trace, step_event,
                   step_complete_event, process, worker, uwait, uprog, uline,
                   batch_result, observer, app, history>>

\* the finally clause of execute_code left out on the paths that raised
BatchRestoreOnSuccess ==
    IF uerror \/ 0 \in uncaught
    THEN UNCHANGED <<sys_stdout, sys_stderr>>
    ELSE sys_stdout' = original_stdout /\ sys_stderr' = original_stderr

\* execute_code, lines 66-69: restore stdout and stderr
BatchRestore ==
    /\ sys_stdout' = original_stdout
    /\ sys_stderr' = original_stderr

\* execute_code, lines 66-77: the finally clause, then the tuple is returned
\* (locals is self.locals.copy(): the values themselves); an exception that
\* passed the except clause goes on to the caller instead.
BatchFinally ==
    /\ upc = "batch_finally"
    /\ BatchRestore
    /\ batch_result' = IF 0 \in uncaught THEN batch_result
                       ELSE [locals |-> locals[gen], stdout |-> stdout_capture[gen],
                             stderr |-> stderr_capture[gen], error |-> uerror]
    /\ upc' = "idle"
    /\ UNCHANGED <<engine, objects, worker, uwait, uprog, uline, uerror, observer, app, history>>

\* get_current_state, lines 178-186: the dict is built from the objects the
\* fields name; `locals` is self.locals.copy(), a new dict holding the same
\* values, `execution_trace` a new list of the same records, the globals
\* without __builtins__ are empty.
GetCurrentState ==
    /\ upc = "idle"
    /\ snapshot' = [is_running |-> is_running,
                    stdout |-> stdout_capture[gen],
                    stderr |-> stderr_capture[gen],
                    locals |-> locals[gen],
                    globals |-> EmptyDict,
                    execution_trace |-> execution_trace[gen]]
    /\ snapshot_at' = [taken |-> TRUE, run |-> gen, steps |-> steps_issued,
                       stopped |-> should_stop, seen |-> ReprDict(locals[gen])]
    /\ UNCHANGED <<engine, objects, process, worker, controller, info_used, info_pos,
                   info_error, history, app>>

\* get_variable_info, line 198: `for name, value in self.locals.items()`
\* makes an iterator over the dict, which notes the size of the dict.
GetVariableInfo ==
    /\ upc = "idle"
    /\ upc' = "info"
    /\ info_used' = Cardinality(DOMAIN locals[gen])
    /\ info_pos' = 0
    /\ info_error' = FALSE
    /\ UNCHANGED <<engine, objects, process, worker, uwait, uprog, uline, uerror,
                   batch_result, snapshot, snapshot_at, history, app>>

\* get_variable_info, lines 198-216: the iterator is asked for the next item.
\* It raises RuntimeError ("dictionary changed size during iteration") when
\* the dict has another size than it noted; otherwise it yields an item, of
\* which lines 199-204 make an entry, or ends, and the loop over the globals
\* (which hold __builtins__ only) and the return follow.
InfoNext ==
    /\ upc = "info"
    /\ IF Cardinality(DOMAIN locals[gen]) # info_used
       THEN /\ info_error' = TRUE
            /\ upc' = "idle"
            /\ UNCHANGED info_pos
       ELSE IF info_pos < info_used
            THEN /\ info_pos' = info_pos + 1
                 /\ UNCHANGED <<upc, info_error>>
            ELSE /\ upc' = "idle"
                 /\ UNCHANGED <<info_pos, info_error>>
    /\ UNCHANGED <<engine, objects, process, worker, uwait, uprog, uline, uerror,
                   batch_result, snapshot, snapshot_at, info_used, history, app>>

Next ==
    \/ \E w \in Workers : WorkerStep(w)
    \/ \E p \in Programs : StartStepping(p)
    \/ StepCall
    \/ StepNoop
    \/ StepReturn
    \/ StepTimeout
    \/ StopCall
    \/ StopJoined
    \/ StopJoinTimeout
    \/ \E p \in Programs : BatchBegin(p)
    \/ BatchStatement
    \/ BatchExcept
    \/ BatchFinally

Spec == Init /\ [][Next]_vars

\* The three-line scenario: one stepping run of
\* `a = 1; b = a + 1; print(b)` on a new engine, stepped and stopped at will,
\* in which no step() runs into its timeout.
ScenarioStart == gen = 0 /\ StartStepping(ProgABC)

ScenarioStepCall == StepCallUpTo(Len(ProgABC))

ScenarioWorkerStep(w) ==
    \/ WRedirect(w) \/ WExec(w) \/ WHook(w) \/ WAppend(w) \/ WClear(w) \/ WSignal(w)
    \/ WWait(w) \/ WWake(w) \/ WUnsignal(w) \/ WStatement(w)
    \/ WRestore(w) \/ WIdle(w) \/ WNotify(w)

NextScenario ==
    \/ ScenarioStart
    \/ \E w \in Workers : ScenarioWorkerStep(w)
    \/ ScenarioStepCall
    \/ StepNoop
    \/ StepReturn
    \/ StopCall
    \/ StopJoined
    \/ StopJoinTimeout

SpecScenario == Init /\ [][NextScenario]_vars

\* The first execution on a new engine: one stepping run or one batch
\* execution of any of the sources, stepped and stopped at will.
FirstStart == gen = 0 /\ \E p \in FirstPrograms : StartStepping(p)

FirstBatch == gen = 0 /\ \E p \in FirstPrograms : BatchBegin(p)

NextFirstRun ==
    \/ FirstStart
    \/ FirstBatch
    \/ \E w \in Workers : WorkerStep(w)
    \/ StepCall
    \/ StepNoop
    \/ StepReturn
    \/ StepTimeout
    \/ StopCall
    \/ StopJoined
    \/ StopJoinTimeout
    \/ BatchStatement
    \/ BatchExcept
    \/ BatchFinally
    \/ GetCurrentState
    \/ GetVariableInfo
    \/ InfoNext

SpecFirstRun == Init /\ [][NextFirstRun]_vars

\* Batch executions, on a new engine or after a stepping run that was
\* started on the new engine, stepped and stopped at will.
BatchFirstStart == gen = 0 /\ \E p \in Programs : StartStepping(p)

NextBatch ==
    \/ BatchFirstStart
    \/ \E p \in BatchPrograms : BatchBegin(p)
    \/ \E w \in Workers : WorkerStep(w)
    \/ StepCall
    \/ StepNoop
    \/ StepReturn
    \/ StepTimeout
    \/ StopCall
    \/ StopJoined
    \/ StopJoinTimeout
    \/ BatchStatement
    \/ BatchExcept
    \/ BatchFinally

SpecBatch == Init /\ [][NextBatch]_vars

\* One stepping run on a new engine, of a source that ends, raises, blocks
\* or keeps the interpreter lock, stepped and stopped at will.
ControlPrograms == Programs \cup {ProgHold}

ControlStart == gen = 0 /\ \E p \in ControlPrograms : StartStepping(p)

NextControl ==
    \/ ControlStart
    \/ \E w \in Workers : WorkerStep(w)
    \/ StepCall
    \/ StepNoop
    \/ StepReturn
    \/ StepTimeout
    \/ StopCall
    \/ StopJoined
    \/ StopJoinTimeout

SpecControl == Init /\ [][NextControl]_vars


\* ----------------------------------------------------------- bytecode view
\* An instruction as Disassembler.get_bytecode_details lists it: its offset
\* and the line it starts, or None when it starts no line.  The i-th
\* instruction of a list has offset 2 * (i - 1).
Instr(i, sl) == [offset |-> 2 * (i - 1), starts_line |-> sl]

\* what dis gives as starts_line: None, 0 (the RESUME instruction) or a line
StartsLines == {None} \cup (0..MaxLine)

\* the lists of up to MaxInstr instructions
InstructionLists ==
    UNION {{[i \in 1..n |-> Instr(i, f[i])] : f \in [1..n -> StartsLines]} : n \in 0..MaxInstr}

\* the lines a StepRecord reports
ReportedLines == 1..MaxLine

\* app.py lines 472-477: the offset of the first instruction, from the i-th
\* on, whose starts_line is the line; None when there is none.
RECURSIVE ExactFrom(_, _, _)
ExactFrom(instrs, i, line) ==
    IF i > Len(instrs) THEN None
    ELSE IF instrs[i].starts_line = line THEN instrs[i].offset
    ELSE ExactFrom(instrs, i + 1, line)

\* app.py lines 480-488: the loop over the instructions from the i-th on,
\* with prev_line and (the offset of) best_instr as they are before it.
RECURSIVE ClosestFrom(_, _, _, _, _)
ClosestFrom(instrs, i, line, prev_line, best) ==
    IF i > Len(instrs) THEN best
    ELSE IF /\ instrs[i].starts_line # None
            /\ prev_line < instrs[i].starts_line
            /\ instrs[i].starts_line <= line
         THEN ClosestFrom(instrs, i + 1, line, instrs[i].starts_line, instrs[i].offset)
         ELSE ClosestFrom(instrs, i + 1, line, prev_line, best)

\* _highlight_bytecode_for_line, app.py lines 462-491: the offset that is
\* highlighted for the line, None when nothing is.
HighlightFor(instrs, line) ==
    IF instrs = <<>> THEN None
    ELSE IF ExactFrom(instrs, 1, line) # None THEN ExactFrom(instrs, 1, line)
    ELSE ClosestFrom(instrs, 1, line, 0, None)

\* The view after _highlight_bytecode_for_line(n): the highlights are
\* cleared (line 462) and, unless there are no instructions (lines 468-469),
\* the instructions are searched for line n.
Highlight(n) ==
    /\ highlighted' = HighlightFor(instructions, n)
    /\ line_number' = IF instructions = <<>> THEN line_number ELSE n
    /\ UNCHANGED instructions

\* _highlight_bytecode_for_line is called for a line.
HighlightBytecodeForLine(n) ==
    /\ Highlight(n)
    /\ UNCHANGED <<engine, objects, process, worker, controller, observer, history,
                   mode, step_button, run_button, stop_button, handler, final,
                   rpc, rwait, rstopped, rrun>>

\* Any list of instructions is in the view.
InitHighlight ==
    /\ InitState
    /\ instructions \in InstructionLists
    /\ highlighted = None
    /\ line_number = 0

NextHighlight == \E n \in ReportedLines : HighlightBytecodeForLine(n)

SpecHighlight == InitHighlight /\ [][NextHighlight]_vars

\* ------------------------------------------------------------- application
\* PyDisApp drives the engine from Tk callbacks, which run one at a time on
\* the main thread, and from the threads _on_debug_run starts.

\* the sources debugged in the application
AppPrograms == {ProgSlow, ProgRaise, ProgBlock}

\* the states of the Step, Run and Stop buttons are set
Buttons(step, run, stop) ==
    /\ step_button' = step
    /\ run_button' = run
    /\ stop_button' = stop

\* _on_debug (toolbar, F10), app.py lines 371-391: _reset_console_mode("debug")
\* shows the controls with Step and Run enabled and Stop disabled, then
\* execute_step_by_step starts the run, whatever ran before.
OnDebug(p) ==
    /\ upc = "idle"
    /\ handler = "none"
    /\ gen < MaxRuns
    /\ mode' = "debug"
    /\ Buttons(TRUE, TRUE, FALSE)
    /\ Reset(TRUE, gen + 1)
    /\ wpc' = [wpc EXCEPT ![gen + 1] = "start"]
    /\ wprog' = [wprog EXCEPT ![gen + 1] = p]
    /\ ResetHistory
    /\ UNCHANGED <<objects, process, wline, wtraced, wlocals, wwait, wxline, wfile,
                   controller, observer, trace_owner, uncaught,
                   handler, final, rpc, rwait, rstopped, view, rrun>>

\* The Step button, debugger.py lines 47-50, and _on_debug_step, app.py
\* line 396: executor.step() is called on the main thread.
OnStepClick ==
    /\ upc = "idle"
    /\ handler = "none"
    /\ mode = "debug"
    /\ step_button
    /\ IF is_running
       THEN /\ step_event' = [step_event EXCEPT ![gen] = TRUE]
            /\ upc' = "step_wait"
            /\ uwait' = gen
       ELSE UNCHANGED <<step_event, upc, uwait>>
    /\ handler' = "step"
    /\ UNCHANGED <<engine, locals, lists, stdout_capture, stderr_capture, execution_trace,
                   step_complete_event, process, worker, uprog, uline, uerror,
                   batch_result, observer, history,
                   mode, step_button, run_button, stop_button, final,
                   rpc, rwait, rstopped, view, rrun>>

\* The Run button, debugger.py lines 54-61, and _on_debug_run, app.py lines
\* 401-416: a new thread is started on run_execution; Stop is enabled, Step
\* and Run are disabled.
OnRunClick ==
    /\ upc = "idle"
    /\ handler = "none"
    /\ mode = "debug"
    /\ run_button
    /\ \E l \in Loops :
          /\ rpc[l] = "none"
          /\ \A k \in Loops : k < l => rpc[k] # "none"
          /\ rpc' = [rpc EXCEPT ![l] = "test"]
          /\ rrun' = [rrun EXCEPT ![l] = gen]
    /\ Buttons(FALSE, FALSE, TRUE)
    /\ UNCHANGED <<engine, objects, process, worker, controller, observer, history,
                   mode, handler, final, rwait, rstopped, view>>

\* The Stop button, debugger.py lines 63-66, and _on_debug_stop, app.py line
\* 421: executor.stop_execution() is called on the main thread (lines
\* 164-166 of executor.py; the join follows).
OnStopClick ==
    /\ upc = "idle"
    /\ handler = "none"
    /\ mode = "debug"
    /\ stop_button
    /\ should_stop' = TRUE
    /\ IF is_running
       THEN /\ step_event' = [step_event EXCEPT ![gen] = TRUE]
            /\ upc' = "stop_join"
       ELSE UNCHANGED <<step_event, upc>>
    /\ handler' = "stop"
    /\ rstopped' = [l \in Loops |-> rpc[l] # "none"]
    /\ UNCHANGED <<gen, is_running, execution_thread, original_stdout, original_stderr,
                   locals, lists, stdout_capture, stderr_capture, execution_trace,
                   step_complete_event, process, worker, uwait, uprog, uline, uerror,
                   batch_result, observer, history,
                   mode, step_button, run_button, stop_button, final, rpc, rwait, view, rrun>>

\* The state get_current_state() returns, lines 178-186 of executor.py.
CurrentState ==
    [is_running |-> is_running,
     stdout |-> stdout_capture[gen],
     stderr |-> stderr_capture[gen],
     locals |-> locals[gen],
     globals |-> EmptyDict,
     execution_trace |-> execution_trace[gen]]

\* _update_debug_ui, app.py lines 432-440, and the rest of the callback,
\* once the call of the engine has returned: the panels show what
\* get_current_state() and get_variable_info() return (of the panels' text
\* only "the final state" _on_debug_stop shows is kept here), and the
\* bytecode view highlights the instruction of the last StepRecord's line
\* (lines 443-452).  After
\* on_step() the Step click enables Stop (debugger.py line 52); after
\* on_stop() the Stop click enables Step and Run and disables Stop (lines
\* 68-70); then the callback returns to the event loop.
UpdateDebugUI ==
    /\ upc = "idle"
    /\ handler \in {"step", "stop"}
    /\ final' = IF handler = "stop"
                THEN [taken |-> TRUE, run |-> gen, state |-> CurrentState]
                ELSE final
    /\ IF handler = "step"
       THEN Buttons(step_button, run_button, TRUE)
       ELSE Buttons(TRUE, TRUE, FALSE)
    /\ handler' = "none"
    /\ IF execution_trace[gen] # <<>>
       THEN Highlight(execution_trace[gen][Len(execution_trace[gen])].lineno)
       ELSE UNCHANGED view
    /\ UNCHANGED <<engine, objects, process, worker, controller, observer, history,
                   mode, rpc, rwait, rstopped, rrun>>

\* the loop of run_execution going on whatever the flags of the engine are
RTestAlways(l) ==
    /\ rpc[l] = "test"
    /\ rpc' = [rpc EXCEPT ![l] = "call"]
    /\ UNCHANGED <<engine, objects, process, worker, controller, observer, history,
                   mode, step_button, run_button, stop_button, handler, final,
                   rwait, rstopped, view, rrun>>

\* run_execution, app.py line 407: the loop condition.
RTest(l) ==
    /\ rpc[l] = "test"
    /\ rpc' = [rpc EXCEPT ![l] = IF is_running /\ ~should_stop THEN "call" ELSE "done"]
    /\ UNCHANGED <<engine, objects, process, worker, controller, observer, history,
                   mode, step_button, run_button, stop_button, handler, final,
                   rwait, rstopped, view, rrun>>

\* run_execution, app.py line 408: self.executor.step() on the loop's
\* thread (lines 158-160 of executor.py).
RCall(l) ==
    /\ rpc[l] = "call"
    /\ IF is_running
       THEN /\ step_event' = [step_event EXCEPT ![gen] = TRUE]
            /\ rwait' = [rwait EXCEPT ![l] = gen]
            /\ rpc' = [rpc EXCEPT ![l] = "step_wait"]
       ELSE /\ rpc' = [rpc EXCEPT ![l] = "after"]
            /\ UNCHANGED <<step_event, rwait>>
    /\ UNCHANGED <<engine, locals, lists, stdout_capture, stderr_capture, execution_trace,
                   step_complete_event, process, worker, controller, observer, history,
                   mode, step_button, run_button, stop_button, handler, final,
                   rstopped, view, rrun>>

\* step, line 160, on the loop's thread: wait(timeout=1.0) returns because
\* the Event is set.
RReturn(l) ==
    /\ rpc[l] = "step_wait"
    /\ step_complete_event[rwait[l]]
    /\ rpc' = [rpc EXCEPT ![l] = "after"]
    /\ UNCHANGED <<engine, objects, process, worker, controller, observer, history,
                   mode, step_button, run_button, stop_button, handler, final,
                   rwait, rstopped, view, rrun>>

\* The worker stays where it is for longer than a timeout of the engine: it
\* is inside a call of its program that takes long or does not return, or
\* blocked on a proceed signal that is clear.
Lingers(w) ==
    \/ wpc[w] = "stmt" /\ wxline[w] = 0 /\ wprog[w][wline[w]].op \in {"slow", "block"}
    \/ wpc[w] = "parked" /\ ~step_event[wwait[w]]

\* No worker is about to set a signal: a wait for the suspended signal lasts
\* until its timeout.
NoWorkerOnTheWay == \A w \in Workers : wpc[w] \in {"none", "done"} \/ Lingers(w)

\* No run loop is about to go on: each has not started, has ended, or waits
\* in self.after for the main thread, which serves it from the event loop.
\* (A wait of a loop in step() began before the wait of the main thread it
\* meets, and its second is over first.)
NoLoopOnTheWay == \A l \in Loops : rpc[l] \in {"none", "after", "done"}

\* step, line 160, on the loop's thread: wait(timeout=1.0) returns because
\* the timeout is over.
RTimeout(l) ==
    /\ rpc[l] = "step_wait"
    /\ ~step_complete_event[rwait[l]]
    /\ NoWorkerOnTheWay
    /\ rpc' = [rpc EXCEPT ![l] = "after"]
    /\ UNCHANGED <<engine, objects, process, worker, controller, observer, history,
                   mode, step_button, run_button, stop_button, handler, final,
                   rwait, rstopped, view, rrun>>

\* step, line 160, on the main thread: the timeout is over.
StepTimesOut == NoWorkerOnTheWay /\ NoLoopOnTheWay /\ StepTimeout

\* stop_execution, line 168: the join ends by its timeout, the thread being
\* in a place it does not leave within a second.
JoinTimesOut ==
    /\ execution_thread # 0
    /\ Lingers(execution_thread)
    /\ NoLoopOnTheWay
    /\ StopJoinTimeout

\* run_execution, app.py line 411: self.after(100, self._update_debug_ui)
\* schedules a callback that refreshes the panels.  Tk serves the call of
\* another thread on the main thread, between two callbacks of the event
\* loop; the calling thread waits until then.
RAfter(l) ==
    /\ rpc[l] = "after"
    /\ upc = "idle"
    /\ handler = "none"
    /\ rpc' = [rpc EXCEPT ![l] = "test"]
    /\ UNCHANGED <<engine, objects, process, worker, controller, observer, history,
                   mode, step_button, run_button, stop_button, handler, final,
                   rwait, rstopped, view, rrun>>

LoopStep(l) == RTest(l) \/ RCall(l) \/ RReturn(l) \/ RTimeout(l) \/ RAfter(l)

\* A debug session is started while no worker of the sessions before
\* executes code of the engine: each has ended, is inside a long call or is
\* suspended.
DebugWhenQuiet(p) == NoWorkerOnTheWay /\ OnDebug(p)

\* The application: debug sessions started, stepped, run and stopped with
\* the toolbar, the keys and the buttons as far as these are enabled.
NextApp ==
    \/ \E p \in AppPrograms : DebugWhenQuiet(p)
    \/ OnStepClick
    \/ OnRunClick
    \/ OnStopClick
    \/ UpdateDebugUI
    \/ StepReturn
    \/ StepTimesOut
    \/ StopJoined
    \/ JoinTimesOut
    \/ \E w \in Workers : WorkerStep(w)
    \/ \E l \in Loops : LoopStep(l)

SpecApp == Init /\ [][NextApp]_vars

\* The threads are scheduled and the timeouts of step() and of the join run
\* out: a thread that can take a step takes one in the end.  The event loop
\* serves the calls queued by other threads in their turn, so a run loop
\* that waits in self.after goes on however many callbacks the user causes.
\* Nothing is assumed of what the user does.
FairThreads ==
    /\ \A w \in Workers : WF_vars(WorkerStep(w))
    /\ \A l \in Loops : SF_vars(LoopStep(l))
    /\ WF_vars(StepReturn \/ StepTimesOut)
    /\ WF_vars(StopJoined \/ JoinTimesOut)
    /\ WF_vars(UpdateDebugUI)

SpecAppFair == SpecApp /\ FairThreads

\* ------------------------------------------------------------------ claims
\* A worker thread exists and has not ended.
Alive(w) == wpc[w] \notin {"none", "done"}

\* The worker is blocked in self._step_event.wait() on an Event that is clear
\* and that neither step() nor stop_execution() will set: it is the Event of
\* an earlier generation, or the engine is not running.
Stuck(w) ==
    /\ wpc[w] = "parked"
    /\ ~step_event[wwait[w]]
    /\ wwait[w] # gen \/ ~is_running

\* A worker that is stuck stays stuck, whatever is done next.
StuckIsForever == [][\A w \in Workers : Stuck(w) => Stuck(w)']_vars

\* stop_execution() has returned and no execution was started since
\* (_should_stop is set by stop_execution alone and cleared by every reset).
StopReturned == should_stop /\ upc # "stop_join"

\* The locals after the first n statements of p, run from an empty dict.
RECURSIVE LocalsAfter(_, _)
LocalsAfter(p, n) == IF n = 0 THEN EmptyDict ELSE StmtLocals(p[n], LocalsAfter(p, n - 1))

\* C1: at most one execution is active at any time: starting an execution
\* leaves no worker thread of an earlier execution alive.
C1_AtMostOneExecution ==
    Cardinality({w \in Workers : Alive(w)})
        + (IF upc \in {"batch_stmt", "batch_except", "batch_finally"} THEN 1 ELSE 0) <= 1

\* C2: no step of the worker of an earlier execution appends to the trace of
\* the current one, writes to its capture buffers, sets or clears its
\* handshake signals, enters a wait on them, or changes the running flag.
C2_NoOverlap ==
    [][\A w \in Workers : (w < gen /\ WorkerStep(w)) =>
          /\ execution_trace'[gen] = execution_trace[gen]
          /\ stdout_capture'[gen] = stdout_capture[gen]
          /\ stderr_capture'[gen] = stderr_capture[gen]
          /\ step_event'[gen] = step_event[gen]
          /\ step_complete_event'[gen] = step_complete_event[gen]
          /\ (wpc'[w] = "parked" /\ wpc[w] # "parked") => wwait'[w] # gen
          /\ is_running' = is_running]_vars

\* C3: once the stepping runs have ended and nothing executes any more, the
\* process-wide stdout and stderr are the real streams, not capture buffers.
C3_StreamsRestored ==
    (/\ upc = "idle"
     /\ \E w \in Workers : wpc[w] = "done"
     /\ \A w \in Workers : ~Alive(w))
    => (sys_stdout = RealStream /\ sys_stderr = RealStream)

\* C4: once stop() has returned in a stepping run whose statements all
\* terminate, the worker is not left blocked on a proceed signal that nothing
\* will set any more.
C4_StopReleasesWorker ==
    \A w \in Workers :
        (w = gen /\ StopReturned /\ (\A i \in 1..Len(wprog[w]) : wprog[w][i].op # "block"))
        => ~Stuck(w)

\* C5: when step() returns on the suspended signal and the engine reports
\* running, the worker is blocked in the hook (parked on a clear proceed
\* signal) and the last StepRecord of the trace is the one of its line.
C5_StepReturnsAtSuspension ==
    [][(StepReturn /\ is_running') =>
          /\ wpc'[gen] = "parked"
          /\ ~step_event'[wwait'[gen]]
          /\ Len(execution_trace'[gen]) > 0
          /\ execution_trace'[gen][Len(execution_trace'[gen])].lineno = wline'[gen]]_vars

\* C6: no proceed signal is lost: whenever the worker is blocked in the hook
\* with the proceed signal clear and no step() or stop() is under way, it has
\* been released from as many suspension points as step() calls were issued.
C6_NoMissedWakeup ==
    (/\ gen = 1
     /\ upc = "idle"
     /\ ~should_stop
     /\ wpc[1] = "parked"
     /\ ~step_event[wwait[1]])
    => Len(execution_trace[1]) = steps_issued + 1

\* C7: in a stepping run, until stop() is called, the trace holds at most one
\* StepRecord more than step() calls were issued in the run.
C7_OneRecordPerStep ==
    (execution_thread # 0 /\ ~should_stop)
    => Len(execution_trace[gen]) <= 1 + steps_issued

\* The bound of C7 holds in the first run of an engine, where no worker of an
\* earlier execution exists.
C7_FirstRun ==
    (gen = 1 /\ execution_thread # 0 /\ ~should_stop)
    => Len(execution_trace[gen]) <= 1 + steps_issued

\* C8: a straight-line program of N statements, N step() calls after
\* startStepping, each made after the one before returned: the trace has N
\* records with non-decreasing lines and the engine reports not-running.
C8_NStepsRunToTheEnd ==
    (/\ gen = 1
     /\ execution_thread # 0
     /\ StraightLine(wprog[1])
     /\ ~should_stop
     /\ upc = "idle"
     /\ steps_issued = Len(wprog[1]))
    => /\ Len(execution_trace[1]) = Len(wprog[1])
       /\ \A i \in 1..(Len(execution_trace[1]) - 1) :
              execution_trace[1][i].lineno <= execution_trace[1][i + 1].lineno
       /\ ~is_running

\* C9: a straight-line program: after the k-th step() call has returned, the
\* last StepRecord is the one of the k-th statement and its locals are the
\* display forms of the bindings made by statements 1..k-1.
C9_KthStepYieldsKthRecord ==
    (/\ gen = 1
     /\ execution_thread # 0
     /\ StraightLine(wprog[1])
     /\ ~should_stop
     /\ upc = "idle"
     /\ steps_issued >= 1)
    => /\ Len(execution_trace[1]) > 0
       /\ execution_trace[1][Len(execution_trace[1])].lineno = steps_issued
       /\ execution_trace[1][Len(execution_trace[1])].locals
            = ReprDict(LocalsAfter(wprog[1], steps_issued - 1))

\* C10: once stop() has returned, and until the next execution is started,
\* the engine reports not-running, whether or not the join succeeded.
C10_StopLeavesIdle == StopReturned => ~is_running

\* stop() has returned although the worker is still alive (the join timed out).
C10_Witness ==
    /\ StopReturned
    /\ execution_thread # 0
    /\ Alive(execution_thread)
    /\ ~is_running

\* C11: startStepping on a source that does not compile starts no worker
\* thread and leaves the engine not-running: no worker thread exists for
\* such a source.
C11_CompileErrorStartsNoWorker ==
    \A w \in Workers :
        ~Compiles(wprog[w]) => (wpc[w] = "none" /\ ~(execution_thread = w /\ is_running))

\* C12: get_current_state called again, with no step() or stop() call (and
\* no new execution) since the call before, returns a result equal to the
\* one the call before returned.
C12_SnapshotIdempotent ==
    [][(/\ snapshot_at.taken
        /\ snapshot_at.run = gen
        /\ snapshot_at.steps = steps_issued
        /\ snapshot_at.stopped = should_stop
        /\ snapshot_at'.run = gen'
        /\ snapshot_at'.steps = steps_issued'
        /\ snapshot_at'.stopped = should_stop')
       => snapshot' = snapshot]_vars

\* C13: a snapshot is a copy made when it was returned: what its locals
\* display stays what they displayed then, whatever the worker does later.
C13_SnapshotIsACopy ==
    snapshot_at.taken => ReprDict(snapshot.locals) = snapshot_at.seen

\* C14: a query of the engine state from the controlling thread never fails,
\* whatever the worker does to the variables while it runs.
C14_QueryNeverFails == ~info_error

\* C15: step() called when the engine is not running returns at once and
\* leaves the trace, the capture buffers, the bindings, the running flag,
\* the stop flag and both handshake signals as they were.
C15_StepIdleNoop ==
    [][(upc = "idle" /\ ~is_running /\ (StepCall \/ StepNoop))
       => /\ upc' = "idle"
          /\ UNCHANGED <<execution_trace, stdout_capture, stderr_capture, locals, lists,
                         is_running, should_stop, step_event, step_complete_event>>]_vars

\* step() can be called on an engine whose stepping run has ended and left
\* records, with the worker gone.
C15_Witness ==
    /\ upc = "idle"
    /\ ~is_running
    /\ execution_thread # 0
    /\ wpc[execution_thread] = "done"
    /\ Len(execution_trace[gen]) > 0
    /\ step_complete_event[gen]

\* The program of worker w raised: the statement its frame stopped at is a
\* raise.
Failed(w) ==
    /\ Compiles(wprog[w])
    /\ wline[w] \in 1..Len(wprog[w])
    /\ wprog[w][wline[w]].op \in {"raise", "exit"}

\* the formatted traceback is in the text
HasTraceback(text) == \E i \in 1..Len(text) : text[i] = "Traceback"

\* C16: when the worker has ended after its program raised, of whatever
\* kind the exception, no exception has left the worker thread and the
\* formatted trace is in the captured stderr of the run.
C16_FailureContained ==
    \A w \in Workers :
        (wpc[w] = "done" /\ Failed(w))
        => (w \notin uncaught /\ HasTraceback(stderr_capture[w]))

\* The call of execute_code that made the current generation is over.
BatchOver == gen >= 1 /\ execution_thread = 0 /\ upc = "idle"

\* The program of that call raised: the statement it stopped at is a raise.
BatchFailed ==
    /\ Compiles(uprog)
    /\ uline \in 1..Len(uprog)
    /\ uprog[uline].op \in {"raise", "exit"}

\* C17: execute_code of a program that raises returns an error, a stderr
\* holding the formatted trace and the locals bound before the failure, and
\* leaves the engine not running with its capture no longer installed.
C17_BatchFailureReported ==
    (BatchOver /\ BatchFailed)
    => /\ 0 \notin uncaught
       /\ batch_result.error
       /\ HasTraceback(batch_result.stderr)
       /\ batch_result.locals = LocalsAfter(uprog, uline - 1)
       /\ ~is_running
       /\ sys_stdout # Capture(gen) /\ sys_stderr # Capture(gen)

\* The controlling thread is inside execute_code.
InBatch(pc) == pc \in {"batch_stmt", "batch_except", "batch_finally"}

\* C18: execute_code records the process-wide streams it finds when called,
\* keeps that record throughout the call and, however the call ends (normal
\* completion, compile failure, exception caught or not), leaves
\* sys.stdout and sys.stderr being those streams and not its own capture.
C18_BatchRestoresStreams ==
    [][/\ (upc = "idle" /\ InBatch(upc'))
          => (original_stdout' = sys_stdout /\ original_stderr' = sys_stderr)
       /\ (InBatch(upc) /\ InBatch(upc'))
          => UNCHANGED <<original_stdout, original_stderr>>
       /\ (InBatch(upc) /\ upc' = "idle")
          => /\ sys_stdout' = original_stdout /\ sys_stderr' = original_stderr
             /\ sys_stdout' # Capture(gen) /\ sys_stderr' # Capture(gen)]_vars

\* A call of execute_code that failed is over and the streams are the ones
\* recorded at its start.
C18_Witness ==
    /\ BatchOver
    /\ uerror \/ 0 \in uncaught
    /\ sys_stdout = original_stdout
    /\ sys_stderr = original_stderr
    /\ stderr_capture[gen] # <<>> \/ 0 \in uncaught

\* What repr() makes of a returned value: the int 5 gives 5, the string
\* "5" gives the quoted "5"; it tells a live value from its display string.
ReprOfReturned(d) == [k \in DOMAIN d |-> ToString(d[k])]

\* C19: execute_code of `x = 5; print(x)` returns locals that map x to the
\* display string "5", and a stdout holding the printed text.
C19_BatchLocalsDisplayForm ==
    (BatchOver /\ uprog = ProgX5 /\ 0 \notin uncaught)
    => /\ ReprOfReturned(batch_result.locals) = ReprOfReturned([k \in {"x"} |-> "5"])
       /\ \E i \in 1..Len(batch_result.stdout) : batch_result.stdout[i] = "5"

\* C20: execute_code of a program with no statement returns empty locals,
\* empty stdout, empty stderr and no error, whatever was executed on the
\* engine before.
C20_EmptyBatchIsEmpty ==
    (BatchOver /\ uprog = ProgEmpty)
    => /\ 0 \notin uncaught
       /\ DOMAIN batch_result.locals = {}
       /\ batch_result.stdout = <<>>
       /\ batch_result.stderr = <<>>
       /\ ~batch_result.error

\* The worker is blocked in self._step_event.wait() with the Event clear.
Blocked(w) == wpc[w] = "parked" /\ ~step_event[wwait[w]]

\* C23: once stop() has set the stop flag, the worker of that run appends no
\* StepRecord any more and does not block on the proceed signal again: the
\* trace is as long as it was when the flag was set.
C23_StopFreezesTrace ==
    [][(should_stop /\ should_stop' /\ execution_thread # 0)
       => /\ Len(execution_trace'[gen]) = Len(execution_trace[gen])
          /\ Blocked(execution_thread)' => Blocked(execution_thread)]_vars

\* The trace list of generation g got the StepRecord of the line worker w
\* is at as its new last element, and w went on to suspend.
AppendedBy(w, g) ==
    /\ wpc[w] = "append" /\ wpc'[w] = "clear"
    /\ execution_trace'[g] = Append(execution_trace[g], StepRecord(w))

\* C24: within a run the trace changes only by the worker of the run adding
\* one StepRecord at its end when it enters a suspension point; no record
\* is removed, moved or altered, and the trace list of an earlier run is
\* left alone.
C24_TraceAppendOnly ==
    [][\A g \in Gens :
          execution_trace'[g] # execution_trace[g]
          => (g = gen /\ gen' = gen /\ AppendedBy(g, g))]_vars

\* The text the first n statements of p write to stdout, run from an empty
\* dict.
RECURSIVE OutputAfter(_, _)
OutputAfter(p, n) ==
    IF n = 0 THEN <<>>
    ELSE OutputAfter(p, n - 1) \o StmtOutput(p[n], LocalsAfter(p, n - 1))

\* The worker is suspended before a statement of its program: blocked in the
\* hook at a line event of the module frame.
SuspendedAtStatement(w) == Blocked(w) /\ wxline[w] = 0

\* C25: a snapshot taken while the worker of the run is suspended before
\* statement k of a straight-line program holds, as captured stdout, the
\* output of statements 1..k-1 and nothing else.
C25_OutputAfterRelease ==
    (execution_thread # 0 /\ StraightLine(wprog[gen]) /\ SuspendedAtStatement(gen))
    => CurrentState.stdout = OutputAfter(wprog[gen], wline[gen] - 1)

\* C21: once _on_debug_stop has been invoked, every run-loop thread that was
\* started before it ends, whatever the target program and the user do next.
C21_StopEndsRunLoop ==
    \A l \in Loops : [](rstopped[l] => <>(rpc[l] = "done"))

\* The threads that are inside Executor.step(), waiting for the suspended
\* signal.
InStep == {l \in Loops : rpc[l] = "step_wait"}

\* C27: what _on_debug_stop republished is the final state of the run: it
\* reports not-running, and the captured output, the bindings and the trace
\* of that run are, from then on, what it showed.
C27_StopPublishesFinalState ==
    final.taken
    => /\ ~final.state.is_running
       /\ final.state.stdout = stdout_capture[final.run]
       /\ final.state.stderr = stderr_capture[final.run]
       /\ final.state.locals = locals[final.run]
       /\ final.state.execution_trace = execution_trace[final.run]

\* C28: under the enabling rules of the buttons at most one thread is
\* inside Executor.step() at any time: a step of the main thread does not
\* overlap a step of a run-loop thread, nor two of these each other.
C28_SingleController ==
    Cardinality(InStep) + (IF upc = "step_wait" THEN 1 ELSE 0) <= 1

\* The worker has passed line 153 of _run_with_trace: its program ran off
\* the end or raised, and the finally clause has cleared the running flag.
Ended(w) == wpc[w] \in {"notify", "done"}

\* C26: in a stepping run the running flag is true from startStepping until
\* the program has run off its end or raised, or stop() was called; it is
\* false once the worker has ended and once stop() has returned.
C26_RunningFollowsRun ==
    execution_thread # 0
    => /\ (~should_stop /\ ~Ended(execution_thread)) => is_running
       /\ (wpc[execution_thread] = "done" \/ StopReturned) => ~is_running

\* No step() and no stop() was called since the stepping run was started.
NoCallSinceStart == execution_thread # 0 /\ steps_issued = 0 /\ ~should_stop

\* C30: after startStepping and until the first step() or stop() call no
\* statement of the program executes: the worker is not past statement 1,
\* the bindings and the captured output are empty and the trace holds at
\* most one record.
C30_NothingRunsBeforeFirstStep ==
    NoCallSinceStart
    => /\ wline[execution_thread] <= 1
       /\ locals[gen] = EmptyDict
       /\ stdout_capture[gen] = <<>>
       /\ stderr_capture[gen] = <<>>
       /\ Len(execution_trace[gen]) <= 1

\* C22: the controlling thread never blocks for ever: whenever it waits
\* inside step() or inside the join of stop_execution(), the wait can end,
\* by its signal or by its timeout, whatever the worker is doing.
C22_ControllerNeverBlocks ==
    /\ upc = "step_wait" => ENABLED (StepReturn \/ StepTimeout)
    /\ upc = "stop_join" => ENABLED (StopJoined \/ StopJoinTimeout)

\* The offset of the first instruction of the list that starts the line.
FirstOfLine(instrs, line) ==
    instrs[CHOOSE i \in 1..Len(instrs) :
              /\ instrs[i].starts_line = line
              /\ \A j \in 1..(i - 1) : instrs[j].starts_line # line].offset

\* The lines of the source, below the line, that instructions of the list
\* start (line 0, which the interpreter gives RESUME, is no line of a source).
LinesBelow(instrs, line) ==
    {instrs[i].starts_line : i \in 1..Len(instrs)} \cap (1..(line - 1))

Greatest(S) == CHOOSE m \in S : \A k \in S : k <= m

\* The width of a tolerance window that is small against the lines of the
\* sources; any width below MaxLine - 1 is told from no window in the same way.
Window == MaxLine - 2

\* The view shows the result of a search for a line.
Searched == line_number # 0

\* C29: the highlighted instruction is the first one that starts the
\* reported line if there is one; otherwise the first instruction of the
\* greatest line below the reported one, and only when that line is within
\* the tolerance window of the reported line; otherwise none.
C29_HighlightWithinWindow ==
    Searched
    => highlighted =
         IF \E i \in 1..Len(instructions) : instructions[i].starts_line = line_number
         THEN FirstOfLine(instructions, line_number)
         ELSE IF /\ LinesBelow(instructions, line_number) # {}
                 /\ line_number - Greatest(LinesBelow(instructions, line_number)) <= Window
              THEN FirstOfLine(instructions, Greatest(LinesBelow(instructions, line_number)))
              ELSE None

\* What the search does: as C29 says, with no window.
HighlightIsNearestPreceding ==
    Searched
    => highlighted =
         IF \E i \in 1..Len(instructions) : instructions[i].starts_line = line_number
         THEN FirstOfLine(instructions, line_number)
         ELSE IF LinesBelow(instructions, line_number) # {}
              THEN FirstOfLine(instructions, Greatest(LinesBelow(instructions, line_number)))
              ELSE None

\* C31: a run loop drives the session it was started for only: its step()
\* sets the proceed signal of no run that was started later.
C31_LoopDrivesOwnSession ==
    [][\A l \in Loops :
          (RCall(l) /\ step_event'[gen] /\ rpc'[l] = "step_wait") => rrun[l] = gen]_vars

\* C32: the streams the engine has recorded as the ones to restore are the
\* real streams of the process, never a capture buffer of the engine.
C32_OriginalsAreReal ==
    /\ original_stdout = RealStream
    /\ original_stderr = RealStream

\* The text is part of the other: each of its items occurs in it.
Contains(text, part) == \A i \in 1..Len(part) : \E j \in 1..Len(text) : text[j] = part[i]

\* The captures of run w hold what the program of w writes when it runs to
\* its end: the output of its statements, and the formatted traceback when
\* it raises.
Complete(w) ==
    /\ StraightLine(wprog[w])
       => Contains(stdout_capture[w], OutputAfter(wprog[w], Len(wprog[w])))
    /\ Failed(w) => HasTraceback(stderr_capture[w])

\* C33: when step() returns and the worker of the run has ended, the end is
\* visible in full: the engine reports not-running and the captures of the
\* run hold all its output and failure text.
C33_TerminationVisible ==
    [][(StepReturn /\ execution_thread # 0 /\ wpc[execution_thread] = "done")
       => /\ ~CurrentState.is_running
          /\ Complete(execution_thread)]_vars

\* step() returns and the worker has ended: the running flag was cleared
\* before the suspended signal was set, and the output of a program that
\* ran to its end is in the capture of the run.
TerminationVisibleButTraceback ==
    [][(StepReturn /\ execution_thread # 0 /\ wpc[execution_thread] = "done")
       => /\ ~CurrentState.is_running
          /\ StraightLine(wprog[execution_thread])
             => Contains(stdout_capture[execution_thread],
                         OutputAfter(wprog[execution_thread], Len(wprog[execution_thread])))]_vars

\* C34: after stop() has returned and until the next execution is started,
\* the commands of the controller leave the engine as it is: a Step or a
\* second Stop changes no field or object of the engine or of a worker and
\* enters no wait, a run loop that tests its condition exits, and a step()
\* of a run loop sets no signal.
C34_StoppedEngineIgnoresCommands ==
    [][StopReturned
       => /\ (OnStepClick \/ OnStopClick)
             => (upc' = "idle" /\ UNCHANGED <<engine, objects, process, worker>>)
          /\ \A l \in Loops :
                /\ RTest(l) => rpc'[l] = "done"
                /\ RCall(l) => (rpc'[l] = "after" /\ UNCHANGED <<engine, objects>>)]_vars

\* After stop() has returned, Run was clicked in the same session and the
\* loop it started has ended.
C34_Witness ==
    /\ StopReturned
    /\ upc = "idle"
    /\ \E l \in Loops : rpc[l] = "done" /\ ~rstopped[l] /\ rrun[l] = gen

\* The worker of the run is blocked in the hook (line 102) with its
\* suspended signal set.
ParkedHasSignalled ==
    (execution_thread # 0 /\ Blocked(execution_thread)) => step_complete_event[gen]

\* C35: within a single stepping run, whenever the worker is blocked in the
\* hook waiting for the proceed signal, the suspended signal is set; hence a
\* step() issued while the worker is parked never returns by its timeout.
C35_ParkedStepNeverTimesOut ==
    /\ []ParkedHasSignalled
    /\ [][~(uparked /\ StepTimeout)]_vars

\* C35, amended: within a single stepping run, whenever the worker is
\* blocked in the hook waiting for the proceed signal, the suspended signal
\* is set; hence a step() issued while the worker is parked finds the signal
\* set when it is called, and returns by its timeout only when the worker,
\* released by this call, has left the hook and cleared the signal (line
\* 103) before the call's wait read it.
C35_ParkedStepFindsSignal ==
    /\ []ParkedHasSignalled
    /\ [][(StepCall /\ uparked') => step_complete_event[gen]]_vars
    /\ [][(uparked /\ StepTimeout)
           => /\ wpc[execution_thread] \notin {"wait", "parked", "unsignal"}
              /\ Len(execution_trace[gen]) >= 1]_vars

\* A step() issued while the worker was parked is waiting, the released
\* worker has cleared the suspended signal and is in its statement.
C35_Witness ==
    /\ upc = "step_wait"
    /\ uparked
    /\ ~step_complete_event[uwait]
    /\ execution_thread # 0
    /\ wpc[execution_thread] = "stmt"

====
